---------------------------- MODULE Spec2Model ----------------------------
(***************************************************************************)
(* The eight filesystem tools of nanobot/agent/tools/filesystem.py over a  *)
(* small filesystem.  A path is the sequence of its components below the   *)
(* root, the filesystem maps each existing path to a directory or to a     *)
(* file with the bytes that write_text encoded, and the string a tool      *)
(* returns is the sequence of the text pieces of its f-string.             *)
(***************************************************************************)
EXTENDS Integers, Sequences, FiniteSets, TLC

VARIABLES fs, pre, call, result, ok

vars == <<fs, pre, call, result, ok>>

\* ------------------------------------------------------------------ bounds
\* The longest path (in components) the filesystem accepts.
PathMax == 3
\* The longest text (in characters) a file holds or a call passes.
MaxLen == 3
\* The most entries below the root the explored filesystems hold.
MaxNodes == 4

Names == {"a", "b"}
NameOrder == <<"a", "b">>

SeqsUpTo(S, n) == UNION {[1..k -> S] : k \in 0..n}

\* ------------------------------------------------------------- filesystem
DirN == [k |-> "dir", d |-> <<>>]
FileN(bytes) == [k |-> "file", d |-> bytes]

Root == <<>>
EmptyFs == [p \in {Root} |-> DirN]

\* Path.parent, Path.name, Path / name
Parent(p) == IF p = Root THEN Root ELSE SubSeq(p, 1, Len(p) - 1)
BaseName(p) == IF p = Root THEN "" ELSE p[Len(p)]
Join(p, n) == IF n = "" THEN p ELSE Append(p, n)

IsPrefix(p, q) == Len(p) <= Len(q) /\ SubSeq(q, 1, Len(p)) = p
Prefixes(p) == {SubSeq(p, 1, n) : n \in 0..Len(p)}

\* Path.exists, Path.is_dir, Path.is_file
Exists(f, p) == p \in DOMAIN f
IsDir(f, p) == p \in DOMAIN f /\ f[p].k = "dir"
IsFile(f, p) == p \in DOMAIN f /\ f[p].k = "file"

\* The filesystem with node at path p.
Put(f, p, node) == [q \in DOMAIN f \cup {p} |-> IF q = p THEN node ELSE f[q]]

\* The text of a path inside a message.
RECURSIVE PathStr(_)
PathStr(p) == IF p = Root THEN <<"/">>
              ELSE IF Len(p) = 1 THEN <<"/", p[1]>>
              ELSE PathStr(Parent(p)) \o <<"/", p[Len(p)]>>

\* --------------------------------------------------------------- encoding
\* The characters of a text: the letters "a" and "b", carriage return "CR",
\* line feed "LF", the two-byte character "E9" and a lone surrogate "SUR",
\* which UTF-8 cannot encode.

\* os.linesep as bytes, on POSIX.
LineSep == <<10>>

CharBytes(c) == CASE c = "a" -> <<97>>
                  [] c = "b" -> <<98>>
                  [] c = "CR" -> <<13>>
                  [] c = "LF" -> LineSep
                  [] c = "E9" -> <<195, 169>>
                  [] OTHER -> <<>>

Encodable(text) == \A i \in 1..Len(text) : text[i] # "SUR"

\* write_text(content, encoding="utf-8"): the bytes of the text, "\n" written
\* as os.linesep.
RECURSIVE Encode(_)
Encode(text) == IF text = <<>> THEN <<>>
                ELSE CharBytes(Head(text)) \o Encode(Tail(text))

\* The UTF-8 decoder.
RECURSIVE Utf8Decode(_)
Utf8Decode(bytes) ==
    IF bytes = <<>> THEN <<>>
    ELSE IF bytes[1] = 195 /\ Len(bytes) >= 2
         THEN <<"E9">> \o Utf8Decode(SubSeq(bytes, 3, Len(bytes)))
    ELSE <<(CASE bytes[1] = 97 -> "a"
              [] bytes[1] = 98 -> "b"
              [] bytes[1] = 13 -> "CR"
              [] OTHER -> "LF")>> \o Utf8Decode(Tail(bytes))

\* Text mode's universal newlines: "\r\n" and "\r" are read as "\n".
RECURSIVE Newlines(_)
Newlines(text) ==
    IF text = <<>> THEN <<>>
    ELSE IF text[1] = "CR" /\ Len(text) >= 2 /\ text[2] = "LF"
         THEN <<"LF">> \o Newlines(SubSeq(text, 3, Len(text)))
    ELSE IF text[1] = "CR" THEN <<"LF">> \o Newlines(Tail(text))
    ELSE <<text[1]>> \o Newlines(Tail(text))

\* read_text(encoding="utf-8")
Decode(bytes) == Newlines(Utf8Decode(bytes))

\* ------------------------------------------------------------------- text
\* old_text in content
Contains(content, old) ==
    \E i \in 1..(Len(content) - Len(old) + 1) :
        SubSeq(content, i, i + Len(old) - 1) = old

\* content.count(old_text): the occurrences that do not overlap, left to right.
RECURSIVE CountFrom(_, _, _)
CountFrom(content, old, i) ==
    IF i + Len(old) - 1 > Len(content) THEN 0
    ELSE IF SubSeq(content, i, i + Len(old) - 1) = old
         THEN 1 + CountFrom(content, old, i + Len(old))
    ELSE CountFrom(content, old, i + 1)

Count(content, old) == IF old = <<>> THEN Len(content) + 1
                       ELSE CountFrom(content, old, 1)

\* content.replace(old_text, new_text, 1)
ReplaceFirst(content, old, new) ==
    IF ~Contains(content, old) THEN content
    ELSE LET i == CHOOSE j \in 1..(Len(content) - Len(old) + 1) :
                     /\ SubSeq(content, j, j + Len(old) - 1) = old
                     /\ \A h \in 1..(j - 1) :
                            SubSeq(content, h, h + Len(old) - 1) # old
         IN SubSeq(content, 1, i - 1) \o new
                \o SubSeq(content, i + Len(old), Len(content))

\* ------------------------------------------------------------ directories
\* Path.mkdir as if it were called without parents=True: a missing parent is
\* not created and makes it fail.
MkdirNoParents(f, p) ==
    IF (\E q \in Prefixes(p) : IsFile(f, q)) \/ ~Exists(f, Parent(p))
    THEN [fs |-> f, ok |-> FALSE]
    ELSE [fs |-> Put(f, p, DirN), ok |-> TRUE]

\* Path.mkdir(parents=True, exist_ok=True): ok is FALSE when the path or one of
\* its ancestors is a file, and then nothing is created.
MkdirP(f, p) ==
    IF \E q \in Prefixes(p) : IsFile(f, q)
    THEN [fs |-> f, ok |-> FALSE]
    ELSE [fs |-> [q \in DOMAIN f \cup Prefixes(p) |->
                     IF q \in DOMAIN f THEN f[q] ELSE DirN],
          ok |-> TRUE]

\* A move that leaves the source behind.
MoveTreeKeepsSource(f, s, d) ==
    LET moved == {p \in DOMAIN f : IsPrefix(s, p)}
        to(p) == d \o SubSeq(p, Len(s) + 1, Len(p))
    IN [p \in DOMAIN f \cup {to(q) : q \in moved} |->
           IF IsPrefix(d, p) THEN f[s \o SubSeq(p, Len(d) + 1, Len(p))]
           ELSE f[p]]

\* os.rename / shutil.move of a path onto a new one: the whole subtree moves.
MoveTree(f, s, d) ==
    LET moved == {p \in DOMAIN f : IsPrefix(s, p)}
        to(p) == d \o SubSeq(p, Len(s) + 1, Len(p))
    IN [p \in (DOMAIN f \ moved) \cup {to(q) : q \in moved} |->
           IF IsPrefix(d, p) THEN f[s \o SubSeq(p, Len(d) + 1, Len(p))]
           ELSE f[p]]

\* shutil.copytree(src, dst): the entries of src are listed, dst is made, and
\* each entry is copied in turn; an entry that cannot be copied (its path is
\* longer than the filesystem accepts) is recorded, the others are still
\* copied, and the error is raised at the end.  ok is FALSE when it raised.
RECURSIVE CopyTree(_, _, _)
RECURSIVE CopyEntries(_, _, _, _, _)
CopyEntries(f, s, d, entries, i) ==
    IF i > Len(NameOrder) THEN [fs |-> f, ok |-> TRUE]
    ELSE LET n == NameOrder[i]
             one == IF n \notin entries THEN [fs |-> f, ok |-> TRUE]
                    ELSE IF IsDir(f, Append(s, n))
                         THEN CopyTree(f, Append(s, n), Append(d, n))
                    ELSE IF Len(d) + 1 > PathMax THEN [fs |-> f, ok |-> FALSE]
                    ELSE [fs |-> Put(f, Append(d, n), f[Append(s, n)]),
                          ok |-> TRUE]
             rest == CopyEntries(one.fs, s, d, entries, i + 1)
         IN [fs |-> rest.fs, ok |-> one.ok /\ rest.ok]

CopyTree(f, s, d) ==
    IF Len(d) > PathMax THEN [fs |-> f, ok |-> FALSE]
    ELSE LET entries == {n \in Names : Exists(f, Append(s, n))}
         IN CopyEntries(Put(f, d, DirN), s, d, entries, 1)

\* ------------------------------------------------------------------ tools
\* What one execute call does: the filesystem it leaves, the string it returns
\* and whether it returned from the end of its try block (ok) or from an error
\* return or an except clause.
Done(f, r) == [fs |-> f, result |-> r, ok |-> TRUE]
Fail(f, r) == [fs |-> f, result |-> r, ok |-> FALSE]

Msg(head, path) == head \o PathStr(path)

\* ReadFileTool.execute
ReadFile(f, path) ==
    IF ~Exists(f, path)
    THEN Fail(f, Msg(<<"Error", ":", " File not found: ">>, path))
    ELSE IF ~IsFile(f, path)
    THEN Fail(f, Msg(<<"Error", ":", " Not a file: ">>, path))
    ELSE Done(f, Decode(f[path].d))

\* WriteFileTool.execute
WriteFile(f, path, content) ==
    LET m == MkdirP(f, Parent(path))
    IN IF ~m.ok
       THEN Fail(f, <<"Error", " writing file: ", "[Errno 20] Not a directory">>)
       ELSE IF IsDir(m.fs, path)
       THEN Fail(m.fs, <<"Error", " writing file: ", "[Errno 21] Is a directory">>)
       ELSE IF ~Encodable(content)
       THEN Fail(Put(m.fs, path, FileN(<<>>)),
                 <<"Error", " writing file: ", "'utf-8' codec can't encode">>)
       ELSE Done(Put(m.fs, path, FileN(Encode(content))),
                 Msg(<<"Successfully wrote ", ToString(Len(content)),
                       " bytes to ">>, path))

\* EditFileTool.execute
EditFile(f, path, old_text, new_text) ==
    IF ~Exists(f, path)
    THEN Fail(f, Msg(<<"Error", ":", " File not found: ">>, path))
    ELSE IF IsDir(f, path)
    THEN Fail(f, <<"Error", " editing file: ", "[Errno 21] Is a directory">>)
    ELSE LET content == Decode(f[path].d)
             count == Count(content, old_text)
             new_content == ReplaceFirst(content, old_text, new_text)
         IN IF ~Contains(content, old_text)
            THEN Fail(f, <<"Error", ":",
                     " old_text not found in file. Make sure it matches exactly.">>)
            ELSE IF count > 1
            THEN Fail(f, <<"Warning", ":", " old_text appears ", ToString(count),
                     " times. Please provide more context to make it unique.">>)
            ELSE IF ~Encodable(new_content)
            THEN Fail(Put(f, path, FileN(<<>>)),
                      <<"Error", " editing file: ", "'utf-8' codec can't encode">>)
            ELSE Done(Put(f, path, FileN(Encode(new_content))),
                      Msg(<<"Successfully edited ">>, path))

\* ListDirTool.execute: the lines of the listing, in the order of the names.
RECURSIVE ListItems(_, _, _)
ListItems(f, path, i) ==
    IF i > Len(NameOrder) THEN <<>>
    ELSE LET item == Append(path, NameOrder[i])
             line == IF ~Exists(f, item) THEN <<>>
                     ELSE <<(IF IsDir(f, item) THEN "[dir] " ELSE "[file] "),
                            NameOrder[i], "\n">>
         IN line \o ListItems(f, path, i + 1)

ListDir(f, path) ==
    IF ~Exists(f, path)
    THEN Fail(f, Msg(<<"Error", ":", " Directory not found: ">>, path))
    ELSE IF ~IsDir(f, path)
    THEN Fail(f, Msg(<<"Error", ":", " Not a directory: ">>, path))
    ELSE LET items == ListItems(f, path, 1)
         IN IF items = <<>>
            THEN Done(f, <<"Directory ">> \o PathStr(path) \o <<" is empty">>)
            ELSE Done(f, SubSeq(items, 1, Len(items) - 1))

\* "/" in new_name or "\\" in new_name
NamesWithSep == {"a/b"}
HasSep(new_name) == new_name \in NamesWithSep

\* rename_file without its check that the target does not exist.
RenameFileOverwrites(f, old_path, new_name) ==
    LET new_file == Join(Parent(old_path), new_name)
    IN IF ~Exists(f, old_path)
       THEN Fail(f, Msg(<<"Error", ":", " File or directory not found: ">>, old_path))
       ELSE IF HasSep(new_name)
       THEN Fail(f, <<"Error", ":", " new_name should be just a name, not a path">>)
       ELSE Done(MoveTree(f, old_path, new_file),
                 Msg(<<"Successfully renamed ">>, old_path) \o <<" to ", new_name>>)

\* RenameFileTool.execute
RenameFile(f, old_path, new_name) ==
    LET new_file == Join(Parent(old_path), new_name)
    IN IF ~Exists(f, old_path)
       THEN Fail(f, Msg(<<"Error", ":", " File or directory not found: ">>, old_path))
       ELSE IF HasSep(new_name)
       THEN Fail(f, <<"Error", ":", " new_name should be just a name, not a path">>)
       ELSE IF Exists(f, new_file)
       THEN Fail(f, Msg(<<"Error", ":", " Target already exists: ">>, new_file))
       ELSE Done(MoveTree(f, old_path, new_file),
                 Msg(<<"Successfully renamed ">>, old_path) \o <<" to ", new_name>>)

\* The destination both move_file and copy_file resolve.
ResolveDest(f, source, destination) ==
    IF IsDir(f, destination) THEN Join(destination, BaseName(source))
    ELSE destination

\* MoveFileTool.execute
MoveFile(f, source, destination) ==
    IF ~Exists(f, source)
    THEN Fail(f, Msg(<<"Error", ":", " Source not found: ">>, source))
    ELSE LET dest_path == ResolveDest(f, source, destination)
             m == MkdirP(f, Parent(dest_path))
         IN IF ~m.ok
            THEN Fail(f, <<"Error", " moving: ", "[Errno 20] Not a directory">>)
            ELSE IF Exists(m.fs, dest_path)
            THEN Fail(m.fs, Msg(<<"Error", ":", " Destination already exists: ">>,
                                destination))
            ELSE IF IsPrefix(source, dest_path)
            THEN Fail(m.fs, <<"Error", " moving: ",
                              "Cannot move a directory into itself">>)
            ELSE Done(MoveTree(m.fs, source, dest_path),
                      Msg(<<"Successfully moved ">>, source)
                          \o Msg(<<" to ">>, destination))

\* CopyFileTool.execute
CopyFile(f, source, destination) ==
    IF ~Exists(f, source)
    THEN Fail(f, Msg(<<"Error", ":", " Source not found: ">>, source))
    ELSE LET dest_path == ResolveDest(f, source, destination)
             m == MkdirP(f, Parent(dest_path))
             c == IF IsDir(m.fs, source) THEN CopyTree(m.fs, source, dest_path)
                  ELSE IF Len(dest_path) > PathMax THEN [fs |-> m.fs, ok |-> FALSE]
                  ELSE [fs |-> Put(m.fs, dest_path, m.fs[source]),
                        ok |-> TRUE]
         IN IF ~m.ok
            THEN Fail(f, <<"Error", " copying: ", "[Errno 20] Not a directory">>)
            ELSE IF Exists(m.fs, dest_path)
            THEN Fail(m.fs, Msg(<<"Error", ":", " Destination already exists: ">>,
                                destination))
            ELSE IF ~c.ok
            THEN Fail(c.fs, <<"Error", " copying: ", "[Errno 36] File name too long">>)
            ELSE Done(c.fs, Msg(<<"Successfully copied ">>, source)
                                \o Msg(<<" to ">>, destination))

\* CreateDirTool.execute
CreateDir(f, path) ==
    IF Exists(f, path)
    THEN IF IsDir(f, path)
         THEN Done(f, Msg(<<"Directory already exists: ">>, path))
         ELSE Fail(f, Msg(<<"Error", ":", " A file with this name already exists: ">>,
                          path))
    ELSE LET m == MkdirP(f, path)
         IN IF ~m.ok
            THEN Fail(f, <<"Error", " creating directory: ",
                           "[Errno 20] Not a directory">>)
            ELSE Done(m.fs, Msg(<<"Successfully created directory: ">>, path))

\* ---------------------------------------------------------------- actions
\* The last call: the tool and its arguments (the ones the tool does not take
\* are empty).
Call(tool, path, dest, text, new_text, name) ==
    [tool |-> tool, path |-> path, dest |-> dest, text |-> text,
     new_text |-> new_text, name |-> name]

NoCall == Call("none", <<>>, <<>>, <<>>, <<>>, "")

\* The explored filesystems stay within the bounds.
Bounded(f) ==
    /\ Cardinality(DOMAIN f) - 1 <= MaxNodes
    /\ \A p \in DOMAIN f : Len(f[p].d) <= 2 * MaxLen

\* Everything below source still has a path once it is below dest.
Fits(f, source, dest) ==
    \A p \in DOMAIN f :
        IsPrefix(source, p) => Len(dest) + Len(p) - Len(source) <= PathMax

\* One execute call, made when the caller holds no result: the filesystem
\* before it is kept in pre.
Step(c, r) ==
    /\ call = NoCall
    /\ Bounded(r.fs)
    /\ fs' = r.fs
    /\ result' = r.result
    /\ ok' = r.ok
    /\ call' = c
    /\ pre' = fs

ReadFileAct(P) ==
    \E path \in P :
        Step(Call("read_file", path, <<>>, <<>>, <<>>, ""), ReadFile(fs, path))

WriteFileAct(P, C) ==
    \E path \in P, content \in C :
        Step(Call("write_file", path, <<>>, content, <<>>, ""),
             WriteFile(fs, path, content))

EditFileAct(P, O, N) ==
    \E path \in P, old_text \in O, new_text \in N :
        /\ IsFile(fs, path) =>
               Len(ReplaceFirst(Decode(fs[path].d), old_text, new_text)) <= MaxLen
        /\ Step(Call("edit_file", path, <<>>, old_text, new_text, ""),
                EditFile(fs, path, old_text, new_text))

ListDirAct(P) ==
    \E path \in P :
        Step(Call("list_dir", path, <<>>, <<>>, <<>>, ""), ListDir(fs, path))

RenameFileAct(P, NN) ==
    \E old_path \in P, new_name \in NN :
        Step(Call("rename_file", old_path, <<>>, <<>>, <<>>, new_name),
             RenameFile(fs, old_path, new_name))

MoveFileAct(P, D) ==
    \E source \in P, destination \in D :
        /\ Fits(fs, source, ResolveDest(fs, source, destination))
        /\ Step(Call("move_file", source, destination, <<>>, <<>>, ""),
                MoveFile(fs, source, destination))

\* A copy into a directory two or more levels below the source itself finds
\* its own destination among the entries it copies and descends until the
\* path (or the interpreter's recursion) limit stops it, whatever that limit
\* is; every other copy is explored when its result has paths the filesystem
\* accepts.
CopyFileAct(P, D) ==
    \E source \in P, destination \in D :
        /\ LET dest_path == ResolveDest(fs, source, destination)
           IN \/ IsPrefix(source, dest_path) /\ Len(dest_path) >= Len(source) + 2
              \/ Fits(fs, source, dest_path)
        /\ Step(Call("copy_file", source, destination, <<>>, <<>>, ""),
                CopyFile(fs, source, destination))

CreateDirAct(P) ==
    \E path \in P :
        Step(Call("create_dir", path, <<>>, <<>>, <<>>, ""), CreateDir(fs, path))

\* The caller has taken the result; the tools keep nothing between two calls.
Return ==
    /\ call # NoCall
    /\ call' = NoCall
    /\ result' = <<>>
    /\ ok' = TRUE
    /\ pre' = fs
    /\ UNCHANGED fs

Init ==
    /\ fs = EmptyFs
    /\ pre = EmptyFs
    /\ call = NoCall
    /\ result = <<>>
    /\ ok = TRUE

\* The paths, texts and names the calls are made with.
InPaths == SeqsUpTo(Names, 2) \ {Root}
DestPaths == InPaths \cup {<<"a", "b", "a">>, <<"b", "a", "b">>}
TreeTexts == {<<"a">>, <<"b">>}
NewNames == Names \cup NamesWithSep

Next ==
    \/ ReadFileAct(InPaths)
    \/ WriteFileAct(InPaths, TreeTexts)
    \/ EditFileAct(InPaths, {<<"a">>}, {<<"b">>})
    \/ ListDirAct(InPaths)
    \/ RenameFileAct(InPaths, NewNames)
    \/ MoveFileAct(InPaths, DestPaths)
    \/ CopyFileAct(InPaths, DestPaths)
    \/ CreateDirAct(DestPaths)
    \/ Return

Spec == Init /\ [][Next]_vars

\* The specification of the text tools: one file, written with every text of
\* at most MaxLen characters over two letters, carriage return and the
\* two-byte character and with a lone surrogate, and one path that may be a
\* directory.
FilePaths == {<<"a">>, <<"b">>}
Texts == SeqsUpTo({"a", "b", "CR", "E9"}, MaxLen) \cup {<<"SUR">>}
OldTexts == {<<>>, <<"a">>, <<"a", "a">>, <<"b">>, <<"LF">>}
NewTexts == {<<>>, <<"b">>, <<"E9">>}

NextText ==
    \/ ReadFileAct(FilePaths)
    \/ WriteFileAct({<<"a">>}, Texts)
    \/ EditFileAct(FilePaths, OldTexts, NewTexts)
    \/ CreateDirAct({<<"b">>})
    \/ Return

SpecText == Init /\ [][NextText]_vars

\* ----------------------------------------------------------------- claims
StartsWith(r, prefix) ==
    Len(r) >= Len(prefix) /\ SubSeq(r, 1, Len(prefix)) = prefix

HasErrorPrefix(r) == StartsWith(r, <<"Error", ":">>)
HasWarningPrefix(r) == StartsWith(r, <<"Warning", ":">>)

\* The places where old occurs in content, overlapping ones included.
Occurrences(content, old) ==
    {i \in 1..(Len(content) - Len(old) + 1) :
        SubSeq(content, i, i + Len(old) - 1) = old}

\* The subtree below path p of filesystem f, by the path below p.
Subtree(f, p) ==
    LET below == {q \in DOMAIN f : IsPrefix(p, q)}
    IN [r \in {SubSeq(q, Len(p) + 1, Len(q)) : q \in below} |-> f[p \o r]]

\* Every entry lies in a directory, no path is longer than the filesystem
\* accepts, and only files hold bytes.
WellFormed ==
    /\ IsDir(fs, Root)
    /\ \A p \in DOMAIN fs :
        /\ IsDir(fs, Parent(p))
        /\ Len(p) <= PathMax
        /\ fs[p].k \in {"dir", "file"}
        /\ fs[p].k = "dir" => fs[p].d = <<>>

\* C1: an edit_file call whose old_text occurs more than once in the file's
\* content (overlapping occurrences included) leaves the file as it was and
\* returns a string that begins with "Warning:".
C1_AmbiguousEditNeverApplied ==
    (/\ call.tool = "edit_file"
     /\ IsFile(pre, call.path)
     /\ Cardinality(Occurrences(Decode(pre[call.path].d), call.text)) > 1)
    => (fs = pre /\ HasWarningPrefix(result))

\* C2: an edit_file call whose old_text occurs exactly once in an existing file
\* returns its success message and writes back the file with exactly that
\* occurrence replaced by new_text and every other character as it was; the
\* same edit again, when old_text is then absent, returns the "old_text not
\* found" error and changes nothing.
C2_UniqueEditReplacesOnlyThat ==
    (/\ call.tool = "edit_file"
     /\ IsFile(pre, call.path)
     /\ Cardinality(Occurrences(Utf8Decode(pre[call.path].d), call.text)) = 1)
    => LET before == Utf8Decode(pre[call.path].d)
           i == CHOOSE j \in Occurrences(before, call.text) : TRUE
           after == SubSeq(before, 1, i - 1) \o call.new_text
                        \o SubSeq(before, i + Len(call.text), Len(before))
           again == EditFile(fs, call.path, call.text, call.new_text)
       IN /\ result = Msg(<<"Successfully edited ">>, call.path)
          /\ IsFile(fs, call.path)
          /\ Utf8Decode(fs[call.path].d) = after
          /\ DOMAIN fs = DOMAIN pre
          /\ \A p \in DOMAIN pre \ {call.path} : fs[p] = pre[p]
          /\ ~Contains(after, call.text) =>
                 /\ again.result = <<"Error", ":",
                      " old_text not found in file. Make sure it matches exactly.">>
                 /\ again.fs = fs

\* C3: after a write_file call that returned its success message, a read_file
\* of the same path returns exactly the content that was written.
C3_WriteThenReadRoundTrip ==
    (call.tool = "write_file" /\ ok)
    => ReadFile(fs, call.path).result = call.text

\* C4: a move_file call with an existing source and a destination that names an
\* existing directory places the source at destination/<basename of source>,
\* and the source path no longer exists afterwards.
C4_MoveIntoDirectoryAlways ==
    (/\ call.tool = "move_file"
     /\ Exists(pre, call.path)
     /\ IsDir(pre, call.dest))
    => /\ Subtree(fs, Join(call.dest, BaseName(call.path))) = Subtree(pre, call.path)
       /\ ~Exists(fs, call.path)

\* C4, amended: a move_file call with an existing source and a destination
\* that names an existing directory, when destination/<basename of source>
\* does not exist yet and does not lie inside the source, returns its success
\* message, places the source at destination/<basename of source>, and the
\* source path no longer exists afterwards.
C4_MoveIntoDirectory ==
    (/\ call.tool = "move_file"
     /\ Exists(pre, call.path)
     /\ IsDir(pre, call.dest)
     /\ ~Exists(pre, Join(call.dest, BaseName(call.path)))
     /\ ~IsPrefix(call.path, Join(call.dest, BaseName(call.path))))
    => /\ ok
       /\ Subtree(fs, Join(call.dest, BaseName(call.path))) = Subtree(pre, call.path)
       /\ ~Exists(fs, call.path)

\* A directory with a file in it has been moved into another directory.
C4_Witness ==
    /\ call.tool = "move_file"
    /\ IsDir(pre, call.path)
    /\ \E n \in Names : IsFile(pre, Append(call.path, n))
    /\ IsDir(pre, call.dest)
    /\ ok
    /\ IsDir(fs, Join(call.dest, BaseName(call.path)))

\* C5: a copy_file call on a directory source that returns its success message
\* leaves the source subtree exactly as it was, and the source tree and the
\* destination tree are then identical.
C5_CopyLeavesSourceAndMatches ==
    (/\ call.tool = "copy_file"
     /\ IsDir(pre, call.path)
     /\ ok)
    => /\ Subtree(fs, call.path) = Subtree(pre, call.path)
       /\ Subtree(fs, ResolveDest(pre, call.path, call.dest)) = Subtree(fs, call.path)

\* The target a rename_file, move_file or copy_file call resolves.
Target ==
    IF call.tool = "rename_file" THEN Join(Parent(call.path), call.name)
    ELSE IF IsDir(pre, call.dest) THEN Join(call.dest, BaseName(call.path))
    ELSE call.dest

\* C6: a rename_file, move_file or copy_file call whose resolved target already
\* exists returns an "Error:" message and changes nothing: source and target
\* are as they were.
C6_NoOverwrite ==
    (/\ call.tool \in {"rename_file", "move_file", "copy_file"}
     /\ Exists(pre, Target))
    => (HasErrorPrefix(result) /\ fs = pre)

\* A rename onto an existing sibling has been refused.
C6_Witness ==
    /\ call.tool = "rename_file"
    /\ Exists(pre, call.path)
    /\ Target # call.path
    /\ Exists(pre, Target)
    /\ HasErrorPrefix(result)

\* What the claims about create_dir say of a call on a path that did not exist:
\* it returned the creation message, the directory and its parents are there,
\* and the same call again returns "Directory already exists", which does not
\* begin with "Error", and changes nothing.
CreatedThenExists ==
    LET again == CreateDir(fs, call.path)
    IN /\ result = Msg(<<"Successfully created directory: ">>, call.path)
       /\ \A q \in Prefixes(call.path) : IsDir(fs, q)
       /\ again.result = Msg(<<"Directory already exists: ">>, call.path)
       /\ ~StartsWith(again.result, <<"Error">>)
       /\ again.fs = fs

\* C7: create_dir called twice in a row on a path that did not exist returns
\* the creation message the first time and the "already exists" message, no
\* error, the second time, which changes nothing.
C7_CreateDirTwiceAlways ==
    (call.tool = "create_dir" /\ ~Exists(pre, call.path)) => CreatedThenExists

\* C7, amended: the same, for a path none of whose ancestors is a regular
\* file.
C7_CreateDirTwice ==
    (/\ call.tool = "create_dir"
     /\ ~Exists(pre, call.path)
     /\ \A q \in Prefixes(call.path) : ~IsFile(pre, q))
    => CreatedThenExists

\* A directory has been created together with a missing parent.
C7_Witness ==
    /\ call.tool = "create_dir"
    /\ ~Exists(pre, call.path)
    /\ ~Exists(pre, Parent(call.path))
    /\ IsDir(fs, call.path)

\* C8: a call of any tool that returns a failure result leaves the whole
\* filesystem exactly as it was before the call.
C8_FailureChangesNothing ==
    (call # NoCall /\ ~ok) => fs = pre

\* C9: the string a call returns begins with "Error:" or "Warning:" if and only
\* if the operation failed.
C9_PrefixIffFailed ==
    call # NoCall => ((HasErrorPrefix(result) \/ HasWarningPrefix(result)) <=> ~ok)

\* C10: the number in write_file's success message is the number of bytes of
\* the file after the call.
C10_ReportedBytesAreFileSize ==
    (call.tool = "write_file" /\ ok)
    => result[2] = ToString(Len(fs[call.path].d))

=============================================================================
